---- MODULE Spec2Model ----
(***************************************************************************)
(* Statsd sinks of source/common/stats/statsd.{h,cc}: the UDP sink (one    *)
(* datagram per sample) and the TCP sink (per-thread flush buffer built    *)
(* from 16 KiB slices, lazily created connection, backpressure guard).     *)
(*                                                                         *)
(* Text is a sequence of tokens.  Every token is one byte, except a metric *)
(* name, which the code copies as an opaque block (memcpy / "{}") and      *)
(* which is kept as a single token weighing NameSize(name) bytes.          *)
(***************************************************************************)
EXTENDS Integers, Sequences, FiniteSets, TLC

\* ---------------------------------------------------------------- bounds
\* Lines that may be held in one thread's flush buffer (committed + open slice).
MaxLines == 2
\* Connections the provider hands out in one run.
MaxConns == 2
\* Cap of the statsd.cx_overflow counter.
MaxOverflow == 2

\* ------------------------------------------------------ program constants
\* static constexpr uint32_t MaxBufferedStatsBytes = (1024 * 1024 * 16);
MaxBufferedStatsBytes == 16777216
\* static constexpr uint32_t FlushSliceSizeBytes = (1024 * 16);
FlushSliceSizeBytes == 16384
\* "if (current_buffer_slice_.len_ - usedBuffer() < name.size() + 40)"
SliceMargin == 40
\* current_slice_mem_ == nullptr
NULL == -1

\* ----------------------------------------------------------------- inputs
\* Worker threads, each with its own thread-local slot object.
Threads == {1, 2}
\* Counter names: "test_counter" is the tests' name; "name_8200" stands for a
\* name of 8200 bytes, so that two of its lines do not fit one slice and a
\* cycle of two lines rotates the slice.  Every line of the names used fits a
\* freshly reserved slice.
CounterNames == {"test_counter", "name_8200"}
GaugeNames == {"test_gauge"}
\* Names of timers and histograms.
TimerNames == {"test_timer"}
\* "name_16400" stands for a name of 16400 bytes: its line is longer than a
\* freshly reserved slice.
LongNames == {"name_16400"}
Names == CounterNames \cup GaugeNames \cup TimerNames \cup LongNames
NameSize(name) ==
  CASE name = "test_counter" -> 12
    [] name = "name_8200" -> 8200
    [] name = "test_gauge" -> 10
    [] name = "test_timer" -> 10
    [] name = "name_16400" -> 16400
\* uint64_t counter deltas.
Deltas == {15}
\* uint64_t gauge values.
GaugeValues == {0}
\* std::chrono::milliseconds handed to onTimespanComplete (a signed count).
Durations == {-1, 5}
\* uint64_t values handed to onHistogramComplete.
HistValues == {15}
\* Values of the shared upstream_cx_tx_bytes_buffered_ gauge: the ceiling and
\* one byte above it.
BufferedValues == {MaxBufferedStatsBytes, MaxBufferedStatsBytes + 1}

\* ------------------------------------------------------------------- text
RECURSIVE ByteLen(_)
ByteLen(text) ==
  IF text = <<>> THEN 0
  ELSE (IF Head(text) \in Names THEN NameSize(Head(text)) ELSE 1) + ByteLen(Tail(text))

RECURSIVE Flatten(_)
Flatten(slices) ==
  IF slices = <<>> THEN <<>> ELSE Head(slices) \o Flatten(Tail(slices))

IsPrefix(p, s) == Len(p) <= Len(s) /\ SubSeq(s, 1, Len(p)) = p

DigitChar(d) == <<"0", "1", "2", "3", "4", "5", "6", "7", "8", "9">>[d + 1]

\* StringUtil::itoa(out, 30, value): the decimal digits of an unsigned value,
\* least significant digit produced first and the result reversed; returns the
\* number of characters written (the length of the text here).
RECURSIVE ItoaReversed(_)
ItoaReversed(value) ==
  IF value < 10 THEN <<DigitChar(value)>>
  ELSE <<DigitChar(value % 10)>> \o ItoaReversed(value \div 10)

Reverse(s) == [i \in 1..Len(s) |-> s[Len(s) + 1 - i]]

Itoa(value) == Reverse(ItoaReversed(value))

\* fmt::format("{}", i) of an integer: decimal digits, '-' first when negative.
RECURSIVE FmtDigits(_)
FmtDigits(n) ==
  IF n < 10 THEN <<DigitChar(n)>>
  ELSE FmtDigits(n \div 10) \o <<DigitChar(n % 10)>>

FmtInt(i) == IF i < 0 THEN <<"-">> \o FmtDigits(0 - i) ELSE FmtDigits(i)

\* char TcpStatsdSink::StatPrefix[] = "envoy."; sizeof(StatPrefix) - 1 bytes are copied.
StatPrefix == <<"e", "n", "v", "o", "y", ".">>

\* std::chrono::milliseconds(value): the uint64_t becomes the signed 64-bit
\* count; every value of HistValues is below 2^63 and keeps its value.
Milliseconds(value) == value

\* fmt::format("envoy.{}:{}|c", name, increment) in Writer::writeCounter.
WriterCounterMessage(name, increment) ==
  <<"e", "n", "v", "o", "y", ".", name, ":">> \o FmtInt(increment) \o <<"|", "c">>

\* The gauge message formatted with the counter's type character.
WriterGaugeMessageAsCounter(name, value) ==
  <<"e", "n", "v", "o", "y", ".", name, ":">> \o FmtInt(value) \o <<"|", "c">>

\* fmt::format("envoy.{}:{}|g", name, value) in Writer::writeGauge.
WriterGaugeMessage(name, value) ==
  <<"e", "n", "v", "o", "y", ".", name, ":">> \o FmtInt(value) \o <<"|", "g">>

\* fmt::format("envoy.{}:{}|ms", name, ms.count()) in Writer::writeTimer.
WriterTimerMessage(name, ms) ==
  <<"e", "n", "v", "o", "y", ".", name, ":">> \o FmtInt(ms) \o <<"|", "m", "s">>

\* The timer line formatted without its newline.
TimespanMessageNoNewline(name, ms) ==
  <<"e", "n", "v", "o", "y", ".", name, ":">> \o FmtInt(ms) \o <<"|", "m", "s">>

\* fmt::format("envoy.{}:{}|ms\n", name, ms.count()) in TlsSink::onTimespanComplete.
TimespanMessage(name, ms) ==
  <<"e", "n", "v", "o", "y", ".", name, ":">> \o FmtInt(ms) \o <<"|", "m", "s", "\n">>

\* The bytes commonFlush stores at the cursor: prefix, name, ':', itoa, '|',
\* stat_type, '\n'.
CommonFlushBytes(name, value, stat_type) ==
  StatPrefix \o <<name>> \o <<":">> \o Itoa(value) \o <<"|">> \o <<stat_type>> \o <<"\n">>

\* ------------------------------------------------------------------ state
VARIABLES
  kind,         \* which Sink is configured: "udp" (UdpStatsdSink) or "tcp" (TcpStatsdSink)
  build,        \* "debug": ASSERT aborts the process; "release": ASSERT compiles to nothing
  workers,      \* threads on which the thread-local slot was set
  torn,         \* threads whose thread-local object was destroyed (shutdownThread)
  aborted,      \* the process ended in abort()
  buffered,     \* cluster_info_->stats().upstream_cx_tx_bytes_buffered_.value()
  cx_overflow,  \* cx_overflow_stat_ ("statsd.cx_overflow")
  conns,        \* every connection the provider handed out: [st, owner]
  sink,         \* per thread, the TlsSink fields
  phase,        \* per thread, where the registry is in its flush cycle: "idle" / "open"
  op,           \* the operation that ran last, with what it found
  calls,        \* the calls that operation made on its collaborators, in order
  cycle,        \* per thread, the flushCounter/flushGauge calls of the open (or last) cycle
  attempt,      \* per thread, its latest write attempt: "none", "endFlush_overflow", "other"
  closedSince,  \* per thread, a close event arrived since its latest untripped attempt
  dropped       \* per thread, bytes in buffer_ of batches endFlush dropped for lack of a connection

vars == <<kind, build, workers, torn, aborted, buffered, cx_overflow, conns, sink, phase,
          op, calls, cycle, attempt, closedSince, dropped>>

\* Connection objects that can exist at once; a destroyed one frees its place.
ConnIds == 1..MaxConns

NoConn == [st |-> "unused", owner |-> 0]

\* TlsSink's data members after TlsSink::TlsSink: no connection, empty buffer_,
\* current_slice_mem_{} null.
NewTlsSink ==
  [connection_ |-> 0,
   buffer_ |-> <<>>,
   current_buffer_slice_ |-> [len_ |-> 0, mem_ |-> <<>>],
   current_slice_mem_ |-> NULL]

NoOp == [name |-> "none", t |-> 0, metric |-> "", value |-> 0, held |-> 0,
         outcome |-> "none", batch |-> <<>>, stale |-> <<>>, prev |-> "none",
         closed |-> FALSE, pending |-> 0]

InitCommon ==
  /\ kind \in {"udp", "tcp"}
  /\ build \in {"debug", "release"}
  /\ torn = {}
  /\ aborted = FALSE
  /\ buffered \in BufferedValues
  /\ cx_overflow = 0
  /\ conns = [c \in ConnIds |-> NoConn]
  /\ sink = [t \in Threads |-> NewTlsSink]
  /\ phase = [t \in Threads |-> "idle"]
  /\ op = NoOp
  /\ calls = <<>>
  /\ cycle = [t \in Threads |-> <<>>]
  /\ attempt = [t \in Threads |-> "none"]
  /\ closedSince = [t \in Threads |-> FALSE]
  /\ dropped = [t \in Threads |-> <<>>]

\* One worker thread.
Init == InitCommon /\ workers = {1}

\* ------------------------------------------------ collaborators' call log
Call(ev, conn, data) == [ev |-> ev, conn |-> conn, data |-> data]

CallsOf(ev) == {i \in 1..Len(calls) : calls[i].ev = ev}

\* ----------------------------------------------------------- Buffer, slice
\* Buffer::OwnedImpl::length() of buffer_: the committed bytes.
BufferLength(buffer) == ByteLen(Flatten(buffer))

\* TlsSink::usedBuffer(): current_slice_mem_ - current_buffer_slice_.mem_.
UsedBuffer(s) == s.current_slice_mem_

\* The ASSERTs of TlsSink::beginFlush.
BeginFlushAsserts(s, expect_empty_buffer) ==
  /\ (~expect_empty_buffer \/ BufferLength(s.buffer_) = 0)
  /\ s.current_slice_mem_ = NULL

\* TlsSink::beginFlush: buffer_.reserve(FlushSliceSizeBytes, &current_buffer_slice_, 1)
\* and the cursor set to the start of the slice.
BeginFlush(s) ==
  [s EXCEPT !.current_buffer_slice_ = [len_ |-> FlushSliceSizeBytes, mem_ |-> <<>>],
            !.current_slice_mem_ = 0]

\* endFlush whose commit leaves the buffer holding the last slice alone.
EndFlushCommitLastSliceOnly(s) ==
  [s EXCEPT !.current_buffer_slice_ = [len_ |-> UsedBuffer(s), mem_ |-> <<>>],
            !.buffer_ = IF s.current_buffer_slice_.mem_ = <<>> THEN <<>>
                        ELSE <<s.current_buffer_slice_.mem_>>,
            !.current_slice_mem_ = NULL]

\* endFlush committing the slice and leaving the cursor where it was.
EndFlushCommitKeepsCursor(s) ==
  [s EXCEPT !.current_buffer_slice_ = [len_ |-> UsedBuffer(s), mem_ |-> <<>>],
            !.buffer_ = IF s.current_buffer_slice_.mem_ = <<>> THEN @
                        ELSE Append(@, s.current_buffer_slice_.mem_)]

\* TlsSink::endFlush up to the write: the slice is trimmed to the bytes used
\* and committed, the cursor becomes null.  Committing zero bytes adds nothing
\* to buffer_.
EndFlushCommit(s) ==
  [s EXCEPT !.current_buffer_slice_ = [len_ |-> UsedBuffer(s), mem_ |-> <<>>],
            !.buffer_ = IF s.current_buffer_slice_.mem_ = <<>> THEN @
                        ELSE Append(@, s.current_buffer_slice_.mem_),
            !.current_slice_mem_ = NULL]

\* "current_buffer_slice_.len_ - usedBuffer() < name.size() + 40" in uint64_t:
\* with the cursor past the end of the slice the difference wraps to a value
\* near 2^64, which is not below name.size() + 40.
SliceTooSmall(s, name) ==
  IF UsedBuffer(s) <= s.current_buffer_slice_.len_
  THEN s.current_buffer_slice_.len_ - UsedBuffer(s) < NameSize(name) + SliceMargin
  ELSE FALSE

\* TlsSink::commonFlush: rotate the slice when the check says so, then store
\* the line at the cursor and advance the cursor by what was stored.
CommonFlush(s, name, value, stat_type) ==
  LET s1 == IF SliceTooSmall(s, name) THEN BeginFlush(EndFlushCommit(s)) ELSE s
      bytes == CommonFlushBytes(name, value, stat_type)
  IN [s1 EXCEPT !.current_buffer_slice_.mem_ = @ \o bytes,
                !.current_slice_mem_ = @ + ByteLen(bytes)]

\* ------------------------------------------------------------- connection
\* Network::Connection::write(buffer): the connection moves every byte of the
\* buffer into its own write buffer; what is left in the caller's buffer.
ConnectionWriteLeaves(data) == <<>>

\* onEvent that acts on LocalClose alone.
OnEventLocalCloseOnly(s, events) ==
  IF events = "LocalClose" THEN [s EXCEPT !.connection_ = 0] ELSE s

\* TlsSink::onEvent: a LocalClose or RemoteClose hands connection_ to
\* dispatcher_.deferredDelete, which leaves connection_ null.
OnEvent(s, events) ==
  IF events \in {"LocalClose", "RemoteClose"} THEN [s EXCEPT !.connection_ = 0] ELSE s

\* The connection destroyed inside its own close callback.
ConnsAfterCloseDestroys(c) == [conns EXCEPT ![c] = NoConn]

\* The connection table after connection c raised a close event at its
\* callbacks: closed and, by onEvent, in the dispatcher's deferred-delete list.
ConnsAfterClose(c) == [conns EXCEPT ![c].st = "deferred"]

\* Network::Connection::close(NoFlush) on an open socket raises LocalClose at
\* the registered callbacks before it returns.
CloseNoFlush(s) == OnEvent(s, "LocalClose")

NextConn == IF \E c \in ConnIds : conns[c].st = "unused"
            THEN CHOOSE c \in ConnIds : conns[c].st = "unused" /\ \A d \in ConnIds : d < c => conns[d].st # "unused"
            ELSE 0

\* ------------------------------------------------------------------ write
\* The check tripping at the ceiling itself.
BackpressureAtCeiling == buffered >= MaxBufferedStatsBytes

\* The backpressure check of TlsSink::write.
Backpressure == buffered > MaxBufferedStatsBytes

\* WriteOverflow without the close of the held connection.
WriteOverflowKeepsConnection(s, data) ==
  [outcome |-> "overflow", sink |-> s, left |-> <<>>, conns |-> conns, inc |-> 1,
   calls |-> <<Call("cx_overflow_inc", 0, <<>>), Call("drain", 0, <<>>)>>]

\* WriteOverflow without the drain of the buffer passed.
WriteOverflowKeepsBatch(s, data) ==
  [outcome |-> "overflow",
   sink |-> [s EXCEPT !.connection_ = 0],
   left |-> data,
   conns |-> IF s.connection_ # 0 THEN [conns EXCEPT ![s.connection_].st = "deferred"] ELSE conns,
   inc |-> 1,
   calls |-> (IF s.connection_ # 0 THEN <<Call("close_NoFlush", s.connection_, <<>>)>> ELSE <<>>)
             \o <<Call("cx_overflow_inc", 0, <<>>)>>]

\* The overflow branch closing the connections of every thread.
WriteOverflowClosesAll(s, data) ==
  [outcome |-> "overflow",
   sink |-> [s EXCEPT !.connection_ = 0],
   left |-> <<>>,
   conns |-> [c \in ConnIds |->
                IF conns[c].st \in {"connecting", "connected"}
                THEN [conns[c] EXCEPT !.st = "deferred"] ELSE conns[c]],
   inc |-> 1,
   calls |-> (IF s.connection_ # 0 THEN <<Call("close_NoFlush", s.connection_, <<>>)>> ELSE <<>>)
             \o <<Call("cx_overflow_inc", 0, <<>>), Call("drain", 0, <<>>)>>]

\* TlsSink::write, the branch taken above the ceiling: a held connection is
\* closed with NoFlush, the overflow counter incremented and the buffer passed
\* drained.  The result names the outcome, the sink afterwards, what is left
\* in the buffer passed, the connection table, the counter's increment and
\* the collaborator calls.
WriteOverflow(s, data) ==
  [outcome |-> "overflow",
   sink |-> IF s.connection_ # 0 THEN CloseNoFlush(s) ELSE s,
   left |-> <<>>,
   conns |-> IF s.connection_ # 0 THEN ConnsAfterClose(s.connection_) ELSE conns,
   inc |-> 1,
   calls |-> (IF s.connection_ # 0 THEN <<Call("close_NoFlush", s.connection_, <<>>)>> ELSE <<>>)
             \o <<Call("cx_overflow_inc", 0, <<>>), Call("drain", 0, <<>>)>>]

\* TlsSink::write, no connection held and tcpConnForCluster returns none: the
\* function returns, leaving the buffer passed as it is.
WriteNoConnection(s, data) ==
  [outcome |-> "dropped", sink |-> s, left |-> data, conns |-> conns, inc |-> 0,
   calls |-> <<Call("tcpConnForCluster", 0, <<>>)>>]

\* The new connection written to before connect() is called on it.
WriteNewConnectionWritesFirst(t, s, data) ==
  [outcome |-> "written",
   sink |-> [s EXCEPT !.connection_ = NextConn],
   left |-> ConnectionWriteLeaves(data),
   conns |-> [conns EXCEPT ![NextConn] = [st |-> "connecting", owner |-> t]],
   inc |-> 0,
   calls |-> <<Call("tcpConnForCluster", NextConn, <<>>),
               Call("addConnectionCallbacks", NextConn, <<>>),
               Call("setBufferStats", NextConn, <<>>),
               Call("write", NextConn, data),
               Call("connect", NextConn, <<>>)>>]

\* TlsSink::write, no connection held and tcpConnForCluster returns one: it
\* becomes connection_, gets the callbacks and the buffer stats, connect() is
\* called and the buffer written to it.
WriteNewConnection(t, s, data) ==
  [outcome |-> "written",
   sink |-> [s EXCEPT !.connection_ = NextConn],
   left |-> ConnectionWriteLeaves(data),
   conns |-> [conns EXCEPT ![NextConn] = [st |-> "connecting", owner |-> t]],
   inc |-> 0,
   calls |-> <<Call("tcpConnForCluster", NextConn, <<>>),
               Call("addConnectionCallbacks", NextConn, <<>>),
               Call("setBufferStats", NextConn, <<>>),
               Call("connect", NextConn, <<>>),
               Call("write", NextConn, data)>>]

\* write() asking the provider for a connection although one is held.
WriteHeldRequestsAgain(s, data) ==
  [outcome |-> "written", sink |-> s, left |-> ConnectionWriteLeaves(data),
   conns |-> conns, inc |-> 0,
   calls |-> <<Call("tcpConnForCluster", 0, <<>>), Call("write", s.connection_, data)>>]

\* TlsSink::write with a connection held: connection_->write(buffer).
WriteHeld(s, data) ==
  [outcome |-> "written", sink |-> s, left |-> ConnectionWriteLeaves(data),
   conns |-> conns, inc |-> 0,
   calls |-> <<Call("write", s.connection_, data)>>]

\* TlsSink::write(buffer) on thread t's sink s, with `data` the content of the
\* buffer passed and `provided` whether tcpConnForCluster returns a connection.
Write(t, s, data, provided) ==
  IF Backpressure THEN WriteOverflow(s, data)
  ELSE IF s.connection_ = 0 THEN
    IF ~provided THEN WriteNoConnection(s, data) ELSE WriteNewConnection(t, s, data)
  ELSE WriteHeld(s, data)

\* What keeps a write attempt inside the bounds of the model: room in the
\* overflow counter when it trips, a connection left to hand out when one is
\* provided.
WriteInBounds(s, provided) ==
  /\ Backpressure => cx_overflow < MaxOverflow
  /\ (~Backpressure /\ s.connection_ = 0 /\ provided) => NextConn # 0

\* --------------------------------------------------------------- bookkeeping
\* The record of an operation on thread t: what it was called with and what
\* it found (connection held, bytes of dropped batches, the thread's previous
\* write attempt, a close event delivered since then).
Op(name, t, metric, value, outcome) ==
  [name |-> name, t |-> t, metric |-> metric, value |-> value,
   held |-> sink[t].connection_, outcome |-> outcome,
   batch |-> IF name = "endFlush" THEN cycle[t] ELSE <<>>,
   stale |-> dropped[t], prev |-> attempt[t], closed |-> closedSince[t],
   pending |-> IF name = "teardown"
               THEN BufferLength(sink[t].buffer_) + ByteLen(sink[t].current_buffer_slice_.mem_)
               ELSE 0]

\* The record of a step of the environment.
EnvOp(name) == [NoOp EXCEPT !.name = name]

Lines(text) == Cardinality({i \in 1..Len(text) : text[i] = "\n"})

\* Lines held in the flush buffer and the open slice.
LinesHeld(s) == Lines(Flatten(s.buffer_)) + Lines(s.current_buffer_slice_.mem_)

Running(t) == ~aborted /\ t \in workers \ torn

\* The write attempt of thread t as seen by the bookkeeping.
Attempted(t, attemptKind, w) ==
  /\ attempt' = [attempt EXCEPT ![t] =
                    IF attemptKind = "endFlush" /\ w.outcome = "overflow"
                    THEN "endFlush_overflow" ELSE "other"]
  /\ closedSince' = [closedSince EXCEPT ![t] =
                        IF w.outcome # "overflow" THEN FALSE
                        ELSE IF sink[t].connection_ # 0 THEN TRUE ELSE @]

\* ------------------------------------------------------------ TCP actions
\* TcpStatsdSink::beginFlush(): TlsSink::beginFlush(true).  A failed ASSERT
\* aborts a debug build and is not evaluated in a release build.
TcpBeginFlush(t) ==
  /\ kind = "tcp" /\ Running(t) /\ phase[t] = "idle"
  /\ IF build = "debug" /\ ~BeginFlushAsserts(sink[t], TRUE)
     THEN /\ aborted' = TRUE
          /\ op' = Op("beginFlush", t, "", 0, "abort")
          /\ calls' = <<>>
          /\ UNCHANGED <<sink, phase, cycle, dropped>>
     ELSE /\ sink' = [sink EXCEPT ![t] = BeginFlush(@)]
          /\ phase' = [phase EXCEPT ![t] = "open"]
          /\ cycle' = [cycle EXCEPT ![t] = <<>>]
          /\ UNCHANGED dropped
          /\ op' = Op("beginFlush", t, "", 0, "none")
          /\ calls' = <<>>
          /\ UNCHANGED aborted
  /\ UNCHANGED <<kind, build, workers, torn, buffered, cx_overflow, conns, attempt,
                 closedSince>>

\* The body shared by flushCounter and flushGauge.
TcpFlush(t, opname, name, value, stat_type) ==
  /\ kind = "tcp" /\ Running(t) /\ phase[t] = "open"
  /\ LinesHeld(sink[t]) < MaxLines
  /\ sink' = [sink EXCEPT ![t] = CommonFlush(@, name, value, stat_type)]
  /\ cycle' = [cycle EXCEPT ![t] = Append(@, [type |-> stat_type, name |-> name, value |-> value])]
  /\ op' = Op(opname, t, name, value, "none")
  /\ calls' = <<>>
  /\ UNCHANGED <<kind, build, workers, torn, aborted, buffered, cx_overflow, conns, phase,
                 attempt, closedSince, dropped>>

\* commonFlush stores its line past the end of the reserved slice: after the
\* call the cursor is beyond current_buffer_slice_.len_.
Overruns(s, name, value, stat_type) ==
  LET s1 == CommonFlush(s, name, value, stat_type)
  IN s1.current_slice_mem_ > s1.current_buffer_slice_.len_

\* flushCounter/flushGauge whose memcpy and stores run past the end of the
\* reserved slice.  Writing outside the reservation is undefined behaviour:
\* the process either dies there, or goes on with the cursor where the code
\* left it.
TcpFlushOverrun(t, opname, name, value, stat_type, crashes) ==
  /\ kind = "tcp" /\ Running(t) /\ phase[t] = "open"
  /\ LinesHeld(sink[t]) < MaxLines
  /\ Overruns(sink[t], name, value, stat_type)
  /\ IF crashes
     THEN /\ aborted' = TRUE
          /\ op' = Op(opname, t, name, value, "abort")
          /\ UNCHANGED <<sink, cycle>>
     ELSE /\ sink' = [sink EXCEPT ![t] = CommonFlush(@, name, value, stat_type)]
          /\ cycle' = [cycle EXCEPT ![t] =
                          Append(@, [type |-> stat_type, name |-> name, value |-> value])]
          /\ op' = Op(opname, t, name, value, "overrun")
          /\ UNCHANGED aborted
  /\ calls' = <<>>
  /\ UNCHANGED <<kind, build, workers, torn, buffered, cx_overflow, conns, phase,
                 attempt, closedSince, dropped>>

\* TcpStatsdSink::flushCounter -> TlsSink::flushCounter: commonFlush(name, delta, 'c').
TcpFlushCounter(t, name, delta) == TcpFlush(t, "flushCounter", name, delta, "c")

\* TcpStatsdSink::flushGauge -> TlsSink::flushGauge: commonFlush(name, value, 'g').
TcpFlushGauge(t, name, value) == TcpFlush(t, "flushGauge", name, value, "g")

\* TlsSink::endFlush(true): commit the slice, then write(buffer_).
EndFlush(t, provided) ==
  LET s1 == EndFlushCommit(sink[t])
  IN Write(t, s1, Flatten(s1.buffer_), provided)

\* TcpStatsdSink::endFlush().
TcpEndFlush(t, provided) ==
  /\ kind = "tcp" /\ Running(t) /\ phase[t] = "open"
  /\ WriteInBounds(sink[t], provided)
  /\ LET w == EndFlush(t, provided)
     IN /\ sink' = [sink EXCEPT ![t] =
                      [w.sink EXCEPT !.buffer_ = IF w.left = <<>> THEN <<>> ELSE @]]
        /\ conns' = w.conns
        /\ cx_overflow' = cx_overflow + w.inc
        /\ calls' = w.calls
        /\ op' = Op("endFlush", t, "", 0, w.outcome)
        /\ Attempted(t, "endFlush", w)
        /\ dropped' = [dropped EXCEPT ![t] = w.left]
  /\ phase' = [phase EXCEPT ![t] = "idle"]
  /\ cycle' = [cycle EXCEPT ![t] = <<>>]
  /\ UNCHANGED <<kind, build, workers, torn, aborted, buffered>>

\* onTimespanComplete going to the connection without the backpressure check.
OnTimespanCompleteUnchecked(t, name, ms, provided) ==
  IF sink[t].connection_ = 0 THEN
    IF ~provided THEN WriteNoConnection(sink[t], TimespanMessage(name, ms))
    ELSE WriteNewConnection(t, sink[t], TimespanMessage(name, ms))
  ELSE WriteHeld(sink[t], TimespanMessage(name, ms))

\* TlsSink::onTimespanComplete: a Buffer::OwnedImpl of its own holding the one
\* formatted line, handed to write().
OnTimespanComplete(t, name, ms, provided) ==
  Write(t, sink[t], TimespanMessage(name, ms), provided)

\* onHistogramComplete taking its value for seconds.
OnHistogramCompleteSeconds(t, name, value, provided) ==
  OnTimespanComplete(t, name, value * 1000, provided)

\* TcpStatsdSink::onHistogramComplete: onTimespanComplete(name, milliseconds(value)).
OnHistogramComplete(t, name, value, provided) ==
  OnTimespanComplete(t, name, Milliseconds(value), provided)

\* The step of a timer or histogram completion with write result w.
TcpCompletion(t, opname, name, value, w) ==
  /\ sink' = [sink EXCEPT ![t] = w.sink]
  /\ conns' = w.conns
  /\ cx_overflow' = cx_overflow + w.inc
  /\ calls' = w.calls
  /\ op' = Op(opname, t, name, value, w.outcome)
  /\ Attempted(t, "completion", w)
  /\ UNCHANGED <<kind, build, workers, torn, aborted, buffered, phase, cycle, dropped>>

TcpOnTimespanComplete(t, name, ms, provided) ==
  /\ kind = "tcp" /\ Running(t)
  /\ WriteInBounds(sink[t], provided)
  /\ TcpCompletion(t, "onTimespanComplete", name, ms, OnTimespanComplete(t, name, ms, provided))

TcpOnHistogramComplete(t, name, value, provided) ==
  /\ kind = "tcp" /\ Running(t)
  /\ WriteInBounds(sink[t], provided)
  /\ TcpCompletion(t, "onHistogramComplete", name, value,
                   OnHistogramComplete(t, name, value, provided))

\* TlsSink::~TlsSink at thread-local teardown: a held connection is closed
\* with NoFlush; nothing else is done with the object's members.
Destroy(s) == IF s.connection_ # 0 THEN CloseNoFlush(s) ELSE s

\* A destructor that writes the buffered bytes before it closes.
DestroyCallsFlushFirst(s) ==
  IF s.connection_ # 0
  THEN <<Call("write", s.connection_, Flatten(s.buffer_) \o s.current_buffer_slice_.mem_),
         Call("close_NoFlush", s.connection_, <<>>)>>
  ELSE <<>>

DestroyCalls(s) ==
  IF s.connection_ # 0 THEN <<Call("close_NoFlush", s.connection_, <<>>)>> ELSE <<>>

\* The thread-local object of thread t is destroyed (shutdownThread): the
\* destructor runs and the members, buffer_ among them, cease to exist.
Teardown(t) ==
  /\ kind = "tcp" /\ Running(t)
  /\ sink' = [sink EXCEPT ![t] = [NewTlsSink EXCEPT !.connection_ = Destroy(sink[t]).connection_]]
  /\ conns' = IF sink[t].connection_ # 0 THEN ConnsAfterClose(sink[t].connection_) ELSE conns
  /\ calls' = DestroyCalls(sink[t])
  /\ torn' = torn \cup {t}
  /\ op' = Op("teardown", t, "", 0, "none")
  /\ phase' = [phase EXCEPT ![t] = "idle"]
  /\ cycle' = [cycle EXCEPT ![t] = <<>>]
  /\ attempt' = [attempt EXCEPT ![t] = "none"]
  /\ closedSince' = [closedSince EXCEPT ![t] = FALSE]
  /\ dropped' = [dropped EXCEPT ![t] = <<>>]
  /\ UNCHANGED <<kind, build, workers, aborted, buffered, cx_overflow>>

\* The held connection raises Connected: onEvent does nothing.
ConnectedEvent(t) ==
  /\ kind = "tcp" /\ Running(t)
  /\ sink[t].connection_ # 0 /\ conns[sink[t].connection_].st = "connecting"
  /\ conns' = [conns EXCEPT ![sink[t].connection_].st = "connected"]
  /\ sink' = [sink EXCEPT ![t] = OnEvent(@, "Connected")]
  /\ op' = EnvOp("Connected")
  /\ calls' = <<>>
  /\ UNCHANGED <<kind, build, workers, torn, aborted, buffered, cx_overflow, phase, cycle,
                 attempt, closedSince, dropped>>

\* The peer closes (or refuses) the held connection: it raises RemoteClose.
RemoteCloseEvent(t) ==
  /\ kind = "tcp" /\ Running(t)
  /\ sink[t].connection_ # 0
  /\ conns' = ConnsAfterClose(sink[t].connection_)
  /\ sink' = [sink EXCEPT ![t] = OnEvent(@, "RemoteClose")]
  /\ closedSince' = [closedSince EXCEPT ![t] = TRUE]
  /\ op' = Op("RemoteClose", t, "", 0, "none")
  /\ calls' = <<>>
  /\ UNCHANGED <<kind, build, workers, torn, aborted, buffered, cx_overflow, phase, cycle,
                 attempt, dropped>>

\* The dispatcher of thread t clears its deferred-delete list between callbacks.
ClearDeferredDeleteList(t) ==
  /\ kind = "tcp" /\ ~aborted /\ t \in workers
  /\ \E c \in ConnIds : conns[c].st = "deferred" /\ conns[c].owner = t
  /\ conns' = [c \in ConnIds |->
                 IF conns[c].st = "deferred" /\ conns[c].owner = t
                 THEN NoConn ELSE conns[c]]
  /\ op' = EnvOp("clearDeferredDeleteList")
  /\ calls' = <<>>
  /\ UNCHANGED <<kind, build, workers, torn, aborted, buffered, cx_overflow, sink, phase,
                 cycle, attempt, closedSince, dropped>>

\* The cluster's connections change upstream_cx_tx_bytes_buffered_.
BufferedChange(v) ==
  /\ kind = "tcp" /\ ~aborted
  /\ v # buffered
  /\ buffered' = v
  /\ op' = EnvOp("buffered")
  /\ calls' = <<>>
  /\ UNCHANGED <<kind, build, workers, torn, aborted, cx_overflow, conns, sink, phase, cycle,
                 attempt, closedSince, dropped>>

\* ------------------------------------------------------------ UDP actions
\* Writer::send(message): one ::send of message.c_str(), message.size() bytes.
WriterSend(message) == <<Call("send", 0, message)>>

\* The step of a UdpStatsdSink method making the collaborator calls c.
UdpStep(t, opname, name, value, c, nextPhase) ==
  /\ kind = "udp" /\ Running(t)
  /\ calls' = c
  /\ op' = Op(opname, t, name, value, "none")
  /\ phase' = [phase EXCEPT ![t] = nextPhase]
  /\ UNCHANGED <<kind, build, workers, torn, aborted, buffered, cx_overflow, conns, sink,
                 cycle, attempt, closedSince, dropped>>

\* void beginFlush() override {}
UdpBeginFlush(t) ==
  phase[t] = "idle" /\ UdpStep(t, "beginFlush", "", 0, <<>>, "open")

\* UdpStatsdSink::flushCounter: Writer::writeCounter(name, delta).
UdpFlushCounter(t, name, delta) ==
  phase[t] = "open"
  /\ UdpStep(t, "flushCounter", name, delta, WriterSend(WriterCounterMessage(name, delta)), "open")

\* UdpStatsdSink::flushGauge: Writer::writeGauge(name, value).
UdpFlushGauge(t, name, value) ==
  phase[t] = "open"
  /\ UdpStep(t, "flushGauge", name, value, WriterSend(WriterGaugeMessage(name, value)), "open")

\* void endFlush() override {}
UdpEndFlush(t) ==
  phase[t] = "open" /\ UdpStep(t, "endFlush", "", 0, <<>>, "idle")

\* UdpStatsdSink::onTimespanComplete: Writer::writeTimer(name, ms).
UdpTimespanCalls(name, ms) == WriterSend(WriterTimerMessage(name, ms))

\* UdpStatsdSink::onHistogramComplete: onTimespanComplete(name, milliseconds(value)).
UdpHistogramCalls(name, value) == UdpTimespanCalls(name, Milliseconds(value))

UdpOnTimespanComplete(t, name, ms) ==
  UdpStep(t, "onTimespanComplete", name, ms, UdpTimespanCalls(name, ms), phase[t])

UdpOnHistogramComplete(t, name, value) ==
  UdpStep(t, "onHistogramComplete", name, value, UdpHistogramCalls(name, value), phase[t])

\* ---------------------------------------------------------- specification
Next ==
  \/ \E t \in Threads : TcpBeginFlush(t)
  \/ \E t \in Threads, name \in CounterNames, v \in Deltas : TcpFlushCounter(t, name, v)
  \/ \E t \in Threads, name \in GaugeNames, v \in GaugeValues : TcpFlushGauge(t, name, v)
  \/ \E t \in Threads, provided \in BOOLEAN : TcpEndFlush(t, provided)
  \/ \E t \in Threads, name \in TimerNames, ms \in Durations, provided \in BOOLEAN :
       TcpOnTimespanComplete(t, name, ms, provided)
  \/ \E t \in Threads, name \in TimerNames, v \in HistValues, provided \in BOOLEAN :
       TcpOnHistogramComplete(t, name, v, provided)
  \/ \E t \in Threads : Teardown(t)
  \/ \E t \in Threads : ConnectedEvent(t)
  \/ \E t \in Threads : RemoteCloseEvent(t)
  \/ \E t \in Threads : ClearDeferredDeleteList(t)
  \/ \E v \in BufferedValues : BufferedChange(v)
  \/ \E t \in Threads : UdpBeginFlush(t)
  \/ \E t \in Threads, name \in CounterNames, v \in Deltas : UdpFlushCounter(t, name, v)
  \/ \E t \in Threads, name \in GaugeNames, v \in GaugeValues : UdpFlushGauge(t, name, v)
  \/ \E t \in Threads : UdpEndFlush(t)
  \/ \E t \in Threads, name \in TimerNames, ms \in Durations : UdpOnTimespanComplete(t, name, ms)
  \/ \E t \in Threads, name \in TimerNames, v \in HistValues : UdpOnHistogramComplete(t, name, v)

Spec == Init /\ [][Next]_vars

\* The TCP sink on one worker thread, fed names of any length: a flushCounter
\* call either stays inside the reserved slice or overruns it.
InitLongName == InitCommon /\ kind = "tcp" /\ workers = {1}

NextLongName ==
  \/ \E t \in Threads : TcpBeginFlush(t)
  \/ \E t \in Threads, name \in CounterNames \cup LongNames, v \in Deltas :
       ~Overruns(sink[t], name, v, "c") /\ TcpFlushCounter(t, name, v)
  \/ \E t \in Threads, name \in CounterNames \cup LongNames, v \in Deltas, crashes \in BOOLEAN :
       TcpFlushOverrun(t, "flushCounter", name, v, "c", crashes)
  \/ \E t \in Threads, provided \in BOOLEAN : TcpEndFlush(t, provided)
  \/ \E t \in Threads, name \in TimerNames, ms \in Durations, provided \in BOOLEAN :
       TcpOnTimespanComplete(t, name, ms, provided)
  \/ \E t \in Threads : RemoteCloseEvent(t)
  \/ \E t \in Threads : ClearDeferredDeleteList(t)
  \/ \E v \in BufferedValues : BufferedChange(v)

SpecLongName == InitLongName /\ [][NextLongName]_vars

\* The TCP sink with the thread-local slot set on two worker threads, their
\* operations and the events of their connections interleaved.  The provider
\* always has a connection to give and a cycle holds at most one line, so no
\* assertion can fail and the two builds behave alike.
InitThreads == InitCommon /\ kind = "tcp" /\ build = "release" /\ workers = Threads

NextThreads ==
  \/ \E t \in Threads : TcpBeginFlush(t)
  \/ \E t \in Threads, v \in Deltas :
       LinesHeld(sink[t]) = 0 /\ TcpFlushCounter(t, "test_counter", v)
  \/ \E t \in Threads : TcpEndFlush(t, TRUE)
  \/ \E t \in Threads, name \in TimerNames : TcpOnTimespanComplete(t, name, 5, TRUE)
  \/ \E t \in Threads : Teardown(t)
  \/ \E t \in Threads : RemoteCloseEvent(t)
  \/ \E t \in Threads : ClearDeferredDeleteList(t)
  \/ \E v \in BufferedValues : BufferedChange(v)

SpecThreads == InitThreads /\ [][NextThreads]_vars

\* ----------------------------------------------------- the documented wire
\* The decimal text of the integers used as inputs, written out.
DecimalText(v) ==
  CASE v = 0 -> <<"0">>
    [] v = 5 -> <<"5">>
    [] v = 15 -> <<"1", "5">>
    [] v = -1 -> <<"-", "1">>

\* The wire line 'envoy.<name>:<value>|<type>' without its newline.
WireLineBare(name, v, type) ==
  <<"e", "n", "v", "o", "y", ".", name, ":">> \o DecimalText(v) \o <<"|">> \o type

\* The wire line 'envoy.<name>:<value>|<type>\n'.
WireLine(name, v, type) == WireLineBare(name, v, type) \o <<"\n">>

\* The concatenation, in call order, of the lines of a cycle's calls.
RECURSIVE ExpectedBatch(_)
ExpectedBatch(batch) ==
  IF batch = <<>> THEN <<>>
  ELSE WireLine(Head(batch).name, Head(batch).value, <<Head(batch).type>>)
       \o ExpectedBatch(Tail(batch))

WriteData == {calls[i].data : i \in CallsOf("write")}

IsWriteAttempt == kind = "tcp" /\ op.name \in {"endFlush", "onTimespanComplete", "onHistogramComplete"}

\* ------------------------------------------------------------------ claims
\* C1: an endFlush that finds the counter not above the ceiling and a
\* connection held or obtainable hands the connection, in one write, exactly
\* the concatenation in call order of the lines of the flushCounter and
\* flushGauge calls made since the cycle's beginFlush.
C1_BatchIsConcatenation ==
  (kind = "tcp" /\ op.name = "endFlush" /\ op.outcome = "written")
    => /\ Cardinality(CallsOf("write")) = 1
       /\ WriteData = {ExpectedBatch(op.batch)}

\* C2: after any endFlush - written, dropped for lack of a connection, or
\* tripped - the flush buffer has length zero, and the emptiness assertion of
\* the next beginFlush does not fail.
C2_BufferEmptyAfterEndFlush ==
  /\ (kind = "tcp" /\ op.name = "endFlush") => BufferLength(sink[op.t].buffer_) = 0
  /\ ~(op.name = "beginFlush" /\ op.outcome = "abort")

\* C6: the bytes of a batch that endFlush dropped because no connection was
\* held and the provider returned none are in no later write; the drop leaves
\* the sink without a connection and the process running.
C6_DroppedBatchNeverSent ==
  /\ \A d \in WriteData : op.stale # <<>> => ~IsPrefix(op.stale, d)
  /\ (kind = "tcp" /\ op.name = "endFlush" /\ op.outcome = "dropped")
       => sink[op.t].connection_ = 0 /\ ~aborted

CallsIn(cs, ev) == {i \in 1..Len(cs) : cs[i].ev = ev}

\* C3: an endFlush that runs with the buffered-bytes counter above the
\* ceiling writes nothing, requests no connection, closes the connection held
\* (if any) with NoFlush, raises statsd.cx_overflow by exactly 1 whether or
\* not a connection was held, and leaves the flush buffer empty.
C3_OverflowTrip ==
  [][(kind = "tcp" /\ op'.name = "endFlush" /\ Backpressure)
       => LET t == op'.t
              held == sink[t].connection_
          IN /\ CallsIn(calls', "write") = {}
             /\ CallsIn(calls', "tcpConnForCluster") = {}
             /\ held # 0 => \E i \in 1..Len(calls') : calls'[i] = Call("close_NoFlush", held, <<>>)
             /\ held = 0 => CallsIn(calls', "close_NoFlush") = {}
             /\ cx_overflow' = cx_overflow + 1
             /\ BufferLength(sink'[t].buffer_) = 0]_vars

C3_Witness ==
  /\ kind = "tcp" /\ op.name = "endFlush" /\ Backpressure
  /\ op.held # 0 /\ op.batch # <<>> /\ cx_overflow = 1

\* The first cycle after a tripped cycle, with no other write attempt of the
\* thread in between, that is written: it requests a connection and hands it,
\* in one write, exactly the lines of its own calls.
FirstCycleAfterTrip ==
  (kind = "tcp" /\ op.name = "endFlush" /\ op.prev = "endFlush_overflow"
     /\ op.outcome = "written")
    => /\ calls[1].ev = "tcpConnForCluster" /\ calls[1].conn # 0
       /\ Cardinality(CallsOf("write")) = 1
       /\ \A i \in CallsOf("write") :
            calls[i].conn = calls[1].conn /\ calls[i].data = ExpectedBatch(op.batch)

ConnectThenWrite(c) ==
  /\ \E i \in CallsOf("connect") : calls[i].conn = c /\ \A j \in CallsOf("write") : i < j
  /\ \A j \in CallsOf("write") : calls[j].conn = c

\* C5 as stated: the first write attempt not tripped by backpressure after a
\* close event requests a connection from the provider, calls connect() on the
\* new connection and then writes to it.
C5_ReconnectsAndWrites ==
  (IsWriteAttempt /\ op.closed /\ ~Backpressure)
    => /\ calls # <<>> /\ calls[1].ev = "tcpConnForCluster" /\ calls[1].conn # 0
       /\ ConnectThenWrite(calls[1].conn)
       /\ CallsOf("write") # {}

\* C5, amended: that attempt requests a connection from the provider; when
\* the provider returns one, connect() is called on it before the write and
\* the write goes to it, a connection still connecting that the sink now
\* holds; when the provider returns none, nothing is connected or written.
C5_ReconnectsWhenProvided ==
  (IsWriteAttempt /\ op.closed /\ ~Backpressure)
    => /\ calls # <<>> /\ calls[1].ev = "tcpConnForCluster"
       /\ IF calls[1].conn # 0
          THEN /\ ConnectThenWrite(calls[1].conn)
               /\ Cardinality(CallsOf("write")) = 1
               /\ conns[calls[1].conn].st = "connecting"
               /\ sink[op.t].connection_ = calls[1].conn
          ELSE /\ CallsOf("write") = {} /\ CallsOf("connect") = {}
               /\ sink[op.t].connection_ = 0

C5_Witness ==
  /\ IsWriteAttempt /\ op.closed /\ ~Backpressure
  /\ calls # <<>> /\ calls[1].ev = "tcpConnForCluster" /\ calls[1].conn # 0
  /\ CallsOf("write") # {}

\* A step leaves thread t's flush buffer, open slice and cursor as they were.
FlushBufferUnchanged(t) ==
  /\ sink'[t].buffer_ = sink[t].buffer_
  /\ sink'[t].current_buffer_slice_ = sink[t].current_buffer_slice_
  /\ sink'[t].current_slice_mem_ = sink[t].current_slice_mem_

\* The calls cs hold one write, of the timer line of name and ms.
WritesTimerLine(cs, name, ms) ==
  /\ Cardinality(CallsIn(cs, "write")) = 1
  /\ \A i \in CallsIn(cs, "write") : cs[i].data = WireLine(name, ms, <<"m", "s">>)

\* C7 as stated: onTimespanComplete, whenever called, transmits exactly its
\* one line as a write of its own and leaves the flush buffer, the open slice
\* and the cursor unchanged.
C7_TimerAlwaysTransmits ==
  [][(kind = "tcp" /\ op'.name = "onTimespanComplete")
       => /\ FlushBufferUnchanged(op'.t)
          /\ WritesTimerLine(calls', op'.metric, op'.value)]_vars

\* C7, amended: onTimespanComplete, whenever called, leaves the flush buffer,
\* the open slice and the cursor unchanged; with the counter at or below the
\* ceiling and a connection held or returned by the provider it transmits
\* exactly its one line as a write of its own, and otherwise nothing.
C7_TimerFrame ==
  [][(kind = "tcp" /\ op'.name = "onTimespanComplete")
       => /\ FlushBufferUnchanged(op'.t)
          /\ IF /\ ~Backpressure
                /\ \/ sink[op'.t].connection_ # 0
                   \/ \E i \in CallsIn(calls', "tcpConnForCluster") : calls'[i].conn # 0
             THEN WritesTimerLine(calls', op'.metric, op'.value)
             ELSE CallsIn(calls', "write") = {}]_vars

C7_Witness ==
  /\ kind = "tcp" /\ op.name = "onTimespanComplete" /\ op.outcome = "written"
  /\ phase[op.t] = "open" /\ sink[op.t].current_slice_mem_ > 0
  /\ sink[op.t].buffer_ # <<>>

\* C8: on either sink, onHistogramComplete(name, v) does to the sink, the
\* connections, the overflow counter and the collaborators exactly what
\* onTimespanComplete(name, milliseconds(v)) does from the same state.
C8_HistogramIsTimespan ==
  [][(op'.name = "onHistogramComplete")
       => IF kind = "udp"
          THEN /\ calls' = UdpTimespanCalls(op'.metric, Milliseconds(op'.value))
               /\ UNCHANGED <<sink, conns, cx_overflow>>
          ELSE \E provided \in BOOLEAN :
                 LET w == OnTimespanComplete(op'.t, op'.metric, Milliseconds(op'.value), provided)
                 IN /\ sink' = [sink EXCEPT ![op'.t] = w.sink]
                    /\ conns' = w.conns
                    /\ cx_overflow' = cx_overflow + w.inc
                    /\ calls' = w.calls]_vars

C8_Witness ==
  /\ kind = "tcp" /\ op.name = "onHistogramComplete" /\ op.outcome = "written"
  /\ op.held = 0

\* The datagram a UDP operation is documented to send, with the line given.
UdpSendsLine(line) == calls = <<Call("send", 0, line)>>

\* C9 as stated: on the UDP sink flushCounter, flushGauge and
\* onTimespanComplete each send one datagram holding the wire line with its
\* newline, and beginFlush and endFlush send nothing.
C9_UdpLineWithNewline ==
  kind = "udp"
    => /\ op.name = "flushCounter" => UdpSendsLine(WireLine(op.metric, op.value, <<"c">>))
       /\ op.name = "flushGauge" => UdpSendsLine(WireLine(op.metric, op.value, <<"g">>))
       /\ op.name = "onTimespanComplete"
            => UdpSendsLine(WireLine(op.metric, op.value, <<"m", "s">>))
       /\ op.name \in {"beginFlush", "endFlush"} => calls = <<>>

\* C9, amended: each of the three sends one datagram holding
\* 'envoy.<name>:<value>|<type>' with no newline after it, and beginFlush and
\* endFlush send nothing.
C9_UdpLineWithoutNewline ==
  kind = "udp"
    => /\ op.name = "flushCounter" => UdpSendsLine(WireLineBare(op.metric, op.value, <<"c">>))
       /\ op.name = "flushGauge" => UdpSendsLine(WireLineBare(op.metric, op.value, <<"g">>))
       /\ op.name = "onTimespanComplete"
            => UdpSendsLine(WireLineBare(op.metric, op.value, <<"m", "s">>))
       /\ op.name \in {"beginFlush", "endFlush"} => calls = <<>>

C9_Witness ==
  kind = "udp" /\ op.name = "flushGauge" /\ Len(calls) = 1 /\ phase[op.t] = "open"

\* C10: the teardown of a per-thread sink closes a held connection with
\* NoFlush and does nothing else - no close when none is held, no write in
\* either case - and no write comes from a sink that was torn down, so the
\* bytes it had buffered are never transmitted.
C10_TeardownDiscards ==
  /\ (kind = "tcp" /\ op.name = "teardown")
       => calls = IF op.held # 0 THEN <<Call("close_NoFlush", op.held, <<>>)>> ELSE <<>>
  /\ CallsOf("write") # {} => op.t \notin torn

C10_Witness ==
  kind = "tcp" /\ op.name = "teardown" /\ op.held # 0 /\ op.pending > 0

\* C11: whether a write attempt trips is decided by the value of the
\* buffered-bytes counter alone: it trips exactly when the value is above
\* 16 MiB (at the ceiling it does not, one byte above it does), whatever the
\* thread's earlier attempt was, whether a connection is held and whatever is
\* pending; and a trip is what raises the overflow counter, at every attempt
\* made while the value is above the ceiling.
C11_TripsIffAboveCeiling ==
  [][IsWriteAttempt'
       => /\ (op'.outcome = "overflow") <=> (buffered > 16777216)
          /\ (cx_overflow' = cx_overflow + 1) <=> (buffered > 16777216)
          /\ buffered' = buffered]_vars

\* A cycle trips right after a tripped cycle of the same thread, the counter
\* still one byte above the ceiling.
C11_Witness ==
  /\ kind = "tcp" /\ op.name = "endFlush" /\ op.outcome = "overflow"
  /\ op.prev = "endFlush_overflow" /\ buffered = 16777217 /\ cx_overflow = 2

\* The open slice as commonFlush has it when it encodes: the slice it found,
\* or the fresh one when the capacity check rotated.
SliceAtEncode(s, name) ==
  IF SliceTooSmall(s, name) THEN BeginFlush(EndFlushCommit(s)) ELSE s

\* C12: at every flushCounter/flushGauge call, whatever the length of the
\* name, the open slice has at least name length + 40 bytes left when the
\* line is encoded - also right after a rotation to a fresh slice - and the
\* cursor is never past the end of the reserved slice.
C12_SliceNeverOverrun ==
  [][(kind = "tcp" /\ op'.name \in {"flushCounter", "flushGauge"})
       => LET t == op'.t
              s1 == SliceAtEncode(sink[t], op'.metric)
          IN /\ s1.current_buffer_slice_.len_ - UsedBuffer(s1) >= NameSize(op'.metric) + 40
             /\ sink'[t].current_slice_mem_ <= sink'[t].current_buffer_slice_.len_]_vars

\* Connection c, held by the thread of the step's operation, raises a close
\* event in the step: RemoteClose from the peer, or LocalClose from inside the
\* sink's own close(NoFlush).
ClosesInStep(c) ==
  /\ op'.t \in Threads /\ sink[op'.t].connection_ = c
  /\ \/ op'.name = "RemoteClose"
     \/ \E i \in 1..Len(calls') : calls'[i] = Call("close_NoFlush", c, <<>>)

\* C13: when a held connection raises LocalClose or RemoteClose, the
\* connection is in the dispatcher's deferred-delete list when the callback
\* has returned - it still exists - and the sink holds no connection; when
\* the event comes from the sink's own close(NoFlush), nothing is written to
\* that connection after the close.
C13_CloseDefersDeletion ==
  [][kind = "tcp"
       => \A c \in ConnIds :
            ClosesInStep(c)
              => /\ conns'[c] = [st |-> "deferred", owner |-> op'.t]
                 /\ sink'[op'.t].connection_ = 0
                 /\ \A i, j \in 1..Len(calls') :
                      (calls'[i].ev = "close_NoFlush" /\ calls'[j].ev = "write" /\ i < j)
                        => calls'[j].conn # c]_vars

\* A timer completion above the ceiling closed the connection it held.
C13_Witness ==
  /\ kind = "tcp" /\ op.name = "onTimespanComplete" /\ op.outcome = "overflow"
  /\ op.held # 0 /\ conns[op.held].st = "deferred" /\ sink[op.t].connection_ = 0

\* The sink has a reserved slice that is not committed yet.
OpenSlice(s) == s.current_slice_mem_ # NULL

\* C14: a per-thread sink has its one slice open exactly while its cycle is
\* open; beginFlush reserves only when no slice is open, a rotation commits
\* the open slice before it reserves the next, and timer and histogram
\* completions and close events leave the buffer, the slice and the cursor
\* as they are.
C14_OneOpenSlice ==
  [][kind = "tcp"
       => /\ \A t \in Threads :
               /\ OpenSlice(sink[t]) <=> phase[t] = "open"
               /\ OpenSlice(sink'[t]) <=> phase'[t] = "open"
          /\ (op'.name = "beginFlush" /\ op'.outcome # "abort") => ~OpenSlice(sink[op'.t])
          /\ op'.name \in {"flushCounter", "flushGauge"}
               => /\ OpenSlice(sink[op'.t])
                  /\ Len(sink'[op'.t].buffer_) =
                       Len(sink[op'.t].buffer_)
                         + (IF SliceTooSmall(sink[op'.t], op'.metric)
                               /\ sink[op'.t].current_buffer_slice_.mem_ # <<>> THEN 1 ELSE 0)
          /\ op'.name \in {"onTimespanComplete", "onHistogramComplete", "RemoteClose"}
               => FlushBufferUnchanged(op'.t)]_vars

\* A flushCounter call rotated the slice: one committed slice of this cycle
\* and the open one.
C14_Witness ==
  /\ kind = "tcp" /\ op.name = "flushCounter" /\ phase[op.t] = "open"
  /\ op.stale = <<>> /\ Len(sink[op.t].buffer_) = 1
  /\ sink[op.t].current_slice_mem_ > 0

\* C15: a flushCounter/flushGauge call, rotating the slice or not, calls no
\* collaborator - no counter read that trips, no connection request, no write
\* - and leaves the connection and the overflow counter alone; endFlush makes
\* the cycle's one write attempt, and when that attempt writes it is one write
\* holding everything the buffer accumulated, the lines of every slice of the
\* cycle in call order at its end.
C15_RotationDoesNotWrite ==
  [][kind = "tcp"
       => /\ op'.name \in {"flushCounter", "flushGauge"}
               => /\ calls' = <<>>
                  /\ cx_overflow' = cx_overflow /\ conns' = conns
                  /\ sink'[op'.t].connection_ = sink[op'.t].connection_
          /\ op'.name = "endFlush"
               => /\ calls' # <<>>
                  /\ Cardinality(CallsIn(calls', "cx_overflow_inc")) <= 1
                  /\ Cardinality(CallsIn(calls', "tcpConnForCluster")) <= 1
                  /\ Cardinality(CallsIn(calls', "write")) <= 1
                  /\ op'.outcome = "written"
                       => /\ Cardinality(CallsIn(calls', "write")) = 1
                          /\ \A i \in CallsIn(calls', "write") :
                               calls'[i].data = op'.stale \o ExpectedBatch(op'.batch)]_vars

\* A cycle of two lines that rotated the slice between them is written.
C15_Witness ==
  /\ kind = "tcp" /\ op.name = "endFlush" /\ op.outcome = "written" /\ op.stale = <<>>
  /\ Len(op.batch) = 2 /\ \A i \in 1..2 : op.batch[i].name = "name_8200"

\* What a write attempt has to transmit: endFlush the content of the flush
\* buffer, a completion its one line.
PendingBytes ==
  IF op.name = "endFlush" THEN op.stale \o ExpectedBatch(op.batch)
  ELSE WireLine(op.metric, op.value, <<"m", "s">>)

\* C16: a write attempt that gets a connection from the provider registers
\* the sink's callbacks and the buffer stats on it, calls connect() and then
\* writes the pending bytes to it, in this order and in the same call, while
\* the connection is still connecting; and every write goes to a connection
\* on which connect() has been called - the one just created, or the one the
\* sink already held.
C16_ConnectBeforeWrite ==
  (kind = "tcp" /\ IsWriteAttempt)
    => /\ \A i \in CallsOf("tcpConnForCluster") :
            calls[i].conn # 0
              => LET c == calls[i].conn
                 IN /\ calls = <<Call("tcpConnForCluster", c, <<>>),
                                 Call("addConnectionCallbacks", c, <<>>),
                                 Call("setBufferStats", c, <<>>),
                                 Call("connect", c, <<>>),
                                 Call("write", c, PendingBytes)>>
                    /\ conns[c] = [st |-> "connecting", owner |-> op.t]
                    /\ sink[op.t].connection_ = c
       /\ \A j \in CallsOf("write") :
            /\ \/ \E i \in CallsOf("connect") : i < j /\ calls[i].conn = calls[j].conn
               \/ op.held = calls[j].conn
            /\ conns[calls[j].conn].st \in {"connecting", "connected"}

\* A cycle's batch is written to the connection its endFlush created.
C16_Witness ==
  /\ kind = "tcp" /\ op.name = "endFlush" /\ op.held = 0 /\ op.outcome = "written"
  /\ op.batch # <<>> /\ Len(calls) = 5 /\ calls[5].data # <<>>
  /\ conns[sink[op.t].connection_].st = "connecting"

\* The connections of thread t that are neither closed nor destroyed.
LiveConns(cs, t) == {c \in ConnIds : cs[c].owner = t /\ cs[c].st \in {"connecting", "connected"}}

\* C17: a step asks the provider for a connection exactly when it is a write
\* attempt of a sink that holds none, made with the counter at or below the
\* ceiling, and then asks once; a non-tripped attempt of a sink that holds a
\* connection - connected or still connecting - writes to that connection and
\* keeps it; and a thread's only live connection is the one its sink holds.
C17_RequestsOnlyWhenNoneHeld ==
  [][kind = "tcp"
       => /\ Cardinality(CallsIn(calls', "tcpConnForCluster"))
               = (IF IsWriteAttempt' /\ ~Backpressure /\ sink[op'.t].connection_ = 0
                  THEN 1 ELSE 0)
          /\ (IsWriteAttempt' /\ ~Backpressure /\ sink[op'.t].connection_ # 0)
               => /\ Len(calls') = 1
                  /\ calls'[1].ev = "write" /\ calls'[1].conn = sink[op'.t].connection_
                  /\ sink'[op'.t].connection_ = sink[op'.t].connection_
          /\ \A t \in Threads :
               LiveConns(conns', t)
                 = (IF sink'[t].connection_ = 0 THEN {} ELSE {sink'[t].connection_})]_vars

\* A later cycle is written to the connection held since an earlier attempt,
\* which is still connecting.
C17_Witness ==
  /\ kind = "tcp" /\ op.name = "endFlush" /\ op.outcome = "written" /\ op.prev = "other"
  /\ op.held # 0 /\ conns[op.held].st = "connecting" /\ op.batch # <<>>
  /\ calls = <<Call("write", op.held, ExpectedBatch(op.batch))>>

\* C18: an operation of one thread - a flush call, a write attempt that trips
\* or not, a close event of its connection, its teardown - leaves every other
\* thread's sink (connection, flush buffer, open slice, cursor), the connection
\* that thread holds and its cycle as they were; no operation of the sink
\* changes the buffered-bytes counter; and the overflow counter, zero at the
\* start, rises by one at every trip of any thread and at nothing else.
C18_ThreadsIsolated ==
  [][kind = "tcp"
       => /\ \A u \in Threads :
               (op'.t \in Threads /\ op'.t # u)
                 => /\ sink'[u] = sink[u]
                    /\ phase'[u] = phase[u] /\ cycle'[u] = cycle[u]
                    /\ sink[u].connection_ # 0
                         => conns'[sink[u].connection_] = conns[sink[u].connection_]
          /\ op'.t \in Threads => buffered' = buffered
          /\ cx_overflow' = cx_overflow
               + (IF IsWriteAttempt' /\ op'.outcome = "overflow" THEN 1 ELSE 0)]_vars

\* Thread 1 trips and closes its connection while thread 2 holds a connection
\* and a line in its open slice; both trips so far are in the counter.
C18_Witness ==
  /\ kind = "tcp" /\ workers = {1, 2} /\ op.t = 1 /\ op.outcome = "overflow" /\ op.held # 0
  /\ sink[2].connection_ # 0 /\ sink[2].current_slice_mem_ > 0
  /\ attempt[2] # "none" /\ cx_overflow = 2

\* The step is a timer or histogram completion of the TCP sink.
IsCompletion == kind = "tcp" /\ op.name \in {"onTimespanComplete", "onHistogramComplete"}

\* C19: an onTimespanComplete or onHistogramComplete call made with the
\* counter above the ceiling writes nothing and requests no connection,
\* closes the connection held (if any) with NoFlush, drops its line and raises
\* statsd.cx_overflow by exactly 1; a completion made at or below the ceiling
\* leaves the counter alone; so the counter counts the write attempts of
\* either kind made above the ceiling.
C19_CompletionsAreChecked ==
  [][IsCompletion'
       => LET t == op'.t
              held == sink[t].connection_
          IN IF buffered > MaxBufferedStatsBytes
             THEN /\ op'.outcome = "overflow"
                  /\ calls' = (IF held # 0 THEN <<Call("close_NoFlush", held, <<>>)>> ELSE <<>>)
                              \o <<Call("cx_overflow_inc", 0, <<>>), Call("drain", 0, <<>>)>>
                  /\ sink'[t].connection_ = 0
                  /\ cx_overflow' = cx_overflow + 1
             ELSE /\ op'.outcome # "overflow"
                  /\ cx_overflow' = cx_overflow]_vars

\* A histogram completion above the ceiling closed the held connection; it is
\* the second trip in the counter.
C19_Witness ==
  /\ kind = "tcp" /\ op.name = "onHistogramComplete" /\ op.outcome = "overflow"
  /\ op.held # 0 /\ conns[op.held].st = "deferred" /\ cx_overflow = 2

====
